---- MODULE Spec2Model ----
(***************************************************************************)
(* A model of the Lua 5.1 bytecode decoder of bytexenon/lua_decomp:        *)
(* the instruction accessors of parser/bytecode.rs, the header and the     *)
(* function-prototype parsers built on nom, and the top-level              *)
(* parse_lua_bytecode driven by main's loop over the input files.          *)
(***************************************************************************)
EXTENDS Integers, Sequences, FiniteSets, TLC

VARIABLES
    instr,      \* Instruction(u32): the raw word, 32 bits, instr[i] is bit i-1
    shown,      \* the last accessor called on instr and what it produced
    bytecode,   \* the byte buffer read from the current file
    pc,         \* main's position: "read", "header", "function", "done"
    header,     \* IResult of parse_header on bytecode
    prototype,  \* IResult of parse_function on the bytes after the header
    outcome,    \* Result of parse_lua_bytecode
    nfiles      \* how many files main has taken from its argument list

vars == <<instr, shown, bytecode, pc, header, prototype, outcome, nfiles>>

None == [none |-> TRUE]

(***************************************************************************)
(* Machine integers.  A u32 is kept as its 32 bits (least significant      *)
(* first): the model checker's integers are 32-bit signed, so a u32 is     *)
(* never held as one number.                                               *)
(***************************************************************************)
ToBits(n, w) == [i \in 1..w |-> (n \div (2 ^ (i - 1))) % 2]

RECURSIVE BitsFrom(_, _, _)
\* The number bits lo..hi stand for, summed by halves
BitsFrom(bs, lo, hi) ==
    IF lo > hi THEN 0
    ELSE IF lo = hi THEN (IF bs[lo] = 1 THEN 2 ^ (lo - 1) ELSE 0)
    ELSE BitsFrom(bs, lo, (lo + hi) \div 2) + BitsFrom(bs, (lo + hi) \div 2 + 1, hi)

\* The number the bits stand for; it is below 2^31 wherever the model asks for it
BitsToNat(bs) == BitsFrom(bs, 1, Len(bs))

\* value >> k on a u32
Shr(bs, k) == [i \in 1..Len(bs) |-> IF i + k <= Len(bs) THEN bs[i + k] ELSE 0]

\* value << k on a u32 (the bits shifted past bit 31 are lost)
Shl(bs, k) == [i \in 1..Len(bs) |-> IF i - k >= 1 THEN bs[i - k] ELSE 0]

\* value - 1 on a nonzero unsigned: the lowest set bit is cleared, the bits below it set
LowestSet(bs) == CHOOSE i \in 1..Len(bs) : bs[i] = 1 /\ \A j \in 1..(i - 1) : bs[j] = 0
SubOne(bs) ==
    LET k == LowestSet(bs)
    IN  [i \in 1..Len(bs) |-> IF i < k THEN 1 ELSE IF i = k THEN 0 ELSE bs[i]]

\* `let v = x;`: x is evaluated once and the rest reads the value
Let(x, rest(_)) == CHOOSE r \in { rest(v) : v \in {x} } : TRUE

\* `let (input, v) = x?;`: an error of x is returned as it is
AndThen(x, rest(_)) == CHOOSE r \in { IF v.ok THEN rest(v) ELSE v : v \in {x} } : TRUE

BitAnd(x, y) == [i \in 1..Len(x) |-> x[i] * y[i]]

IsZero(bs) == \A i \in 1..Len(bs) : bs[i] = 0

\* `u32 as i32`: the same 32 bits read in two's complement
AsI32(bs) ==
    LET low == BitsToNat(SubSeq(bs, 1, 31))
    IN  IF bs[32] = 1 THEN (low - 1073741824) - 1073741824 ELSE low

\* A u64 used as a byte count.  Counts of 2^24 and more are all held as 2^24: each
\* exceeds the length of every buffer of the model, which is all a count is compared to.
CountCap == 16777216
AsCount(bs) ==
    IF \E i \in 25..Len(bs) : bs[i] = 1 THEN CountCap ELSE BitsToNat(SubSeq(bs, 1, 24))

One32 == [i \in 1..32 |-> IF i = 1 THEN 1 ELSE 0]

(***************************************************************************)
(* parser/bytecode.rs: the instruction layout                              *)
(***************************************************************************)
TOTAL_OPS == 38

SIZE_OP == 6
SIZE_C == 9
SIZE_B == 9
SIZE_A == 8
SIZE_BX == SIZE_C + SIZE_B

POS_OP == 0
POS_A == POS_OP + SIZE_OP
POS_C == POS_A + SIZE_A
POS_B == POS_C + SIZE_C
POS_BX == POS_C

Panic(msg) == [panic |-> TRUE, msg |-> msg]
Value(v) == [panic |-> FALSE, val |-> v]

\* extract_bits: assert!(start < end && end <= 32); mask = (1 << (end - start)) - 1;
\* (value >> start) & mask.  1 << 32 overflows the u32 shift.
extract_bits(start, end, value) ==
    IF ~(start < end /\ end <= 32) THEN Panic("Invalid bit range")
    ELSE IF end - start >= 32 THEN Panic("attempt to shift left with overflow")
    ELSE LET mask == SubOne(Shl(One32, end - start))
         IN  Value(BitAnd(Shr(value, start), mask))

\* The enum Opcode, in declaration order: ordinal k is Opcode[k + 1].
Opcode ==
    << "MOVE",     "LOADK",     "LOADBOOL", "LOADNIL",
       "GETUPVAL", "GETGLOBAL", "GETTABLE", "SETGLOBAL",
       "SETUPVAL", "SETTABLE",  "NEWTABLE", "SELF",
       "ADD",      "SUB",       "MUL",      "DIV",
       "MOD",      "POW",       "UNM",      "NOT",
       "LEN",      "CONCAT",    "JMP",      "EQ",
       "LT",       "LE",        "TEST",     "TESTSET",
       "CALL",     "TAILCALL",  "RETURN",   "FORLOOP",
       "FORPREP",  "TFORLOOP",  "SETLIST",  "CLOSE",
       "CLOSURE",  "VARARG" >>

\* `opcode as usize`
Ordinal(name) == (CHOOSE k \in 1..Len(Opcode) : Opcode[k] = name) - 1

\* Opcode::try_from(u8) as derived by TryFromPrimitive
OpcodeTryFrom(op) ==
    IF op < Len(Opcode) THEN [ok |-> TRUE, val |-> Opcode[op + 1]]
    ELSE [ok |-> FALSE, number |-> op]

OPMODES ==
    << <<"IABC",  "OpArgR", "OpArgN">>,   \* OP_MOVE
       <<"IABx",  "OpArgK", "OpArgN">>,   \* OP_LOADK
       <<"IABC",  "OpArgU", "OpArgU">>,   \* OP_LOADBOOL
       <<"IABC",  "OpArgR", "OpArgN">>,   \* OP_LOADNIL
       <<"IABC",  "OpArgU", "OpArgN">>,   \* OP_GETUPVAL
       <<"IABx",  "OpArgK", "OpArgN">>,   \* OP_GETGLOBAL
       <<"IABC",  "OpArgR", "OpArgK">>,   \* OP_GETTABLE
       <<"IABx",  "OpArgK", "OpArgN">>,   \* OP_SETGLOBAL
       <<"IABC",  "OpArgU", "OpArgN">>,   \* OP_SETUPVAL
       <<"IABC",  "OpArgK", "OpArgK">>,   \* OP_SETTABLE
       <<"IABC",  "OpArgU", "OpArgU">>,   \* OP_NEWTABLE
       <<"IABC",  "OpArgR", "OpArgK">>,   \* OP_SELF
       <<"IABC",  "OpArgK", "OpArgK">>,   \* OP_ADD
       <<"IABC",  "OpArgK", "OpArgK">>,   \* OP_SUB
       <<"IABC",  "OpArgK", "OpArgK">>,   \* OP_MUL
       <<"IABC",  "OpArgK", "OpArgK">>,   \* OP_DIV
       <<"IABC",  "OpArgK", "OpArgK">>,   \* OP_MOD
       <<"IABC",  "OpArgK", "OpArgK">>,   \* OP_POW
       <<"IABC",  "OpArgR", "OpArgN">>,   \* OP_UNM
       <<"IABC",  "OpArgR", "OpArgN">>,   \* OP_NOT
       <<"IABC",  "OpArgR", "OpArgN">>,   \* OP_LEN
       <<"IABC",  "OpArgR", "OpArgR">>,   \* OP_CONCAT
       <<"IAsBx", "OpArgR", "OpArgN">>,   \* OP_JMP
       <<"IABC",  "OpArgK", "OpArgK">>,   \* OP_EQ
       <<"IABC",  "OpArgK", "OpArgK">>,   \* OP_LT
       <<"IABC",  "OpArgK", "OpArgK">>,   \* OP_LE
       <<"IABC",  "OpArgR", "OpArgU">>,   \* OP_TEST
       <<"IABC",  "OpArgR", "OpArgU">>,   \* OP_TESTSET
       <<"IABC",  "OpArgU", "OpArgU">>,   \* OP_CALL
       <<"IABC",  "OpArgU", "OpArgU">>,   \* OP_TAILCALL
       <<"IABC",  "OpArgU", "OpArgN">>,   \* OP_RETURN
       <<"IAsBx", "OpArgR", "OpArgN">>,   \* OP_FORLOOP
       <<"IAsBx", "OpArgR", "OpArgN">>,   \* OP_FORPREP
       <<"IABC",  "OpArgN", "OpArgU">>,   \* OP_TFORLOOP
       <<"IABC",  "OpArgU", "OpArgU">>,   \* OP_SETLIST
       <<"IABC",  "OpArgN", "OpArgN">>,   \* OP_CLOSE
       <<"IABx",  "OpArgU", "OpArgN">>,   \* OP_CLOSURE
       <<"IABC",  "OpArgU", "OpArgN">> >> \* OP_VARARG

\* Instruction::opcode: the low 6 bits `as u8`, then try_from(..).unwrap()
opcode(w) ==
    Let(extract_bits(POS_OP, POS_OP + SIZE_OP, w), LAMBDA x :
        IF x.panic THEN x
        ELSE Let(OpcodeTryFrom(BitsToNat(SubSeq(x.val, 1, 8))), LAMBDA r :
                 IF r.ok THEN Value(r.val)
                 ELSE Panic("called Result::unwrap() on an Err value")))

OpmodesAt_OffByOne(i) ==
    IF i + 1 < Len(OPMODES) THEN Value(OPMODES[i + 2])
    ELSE Panic("index out of bounds")

\* OPMODES[i]: indexing past the end of the array panics
OpmodesAt(i) ==
    IF i < Len(OPMODES) THEN Value(OPMODES[i + 1])
    ELSE Panic("index out of bounds")

\* Instruction::format
format(w) ==
    Let(opcode(w), LAMBDA o :
        IF o.panic THEN o
        ELSE Let(OpmodesAt(Ordinal(o.val)), LAMBDA m :
                 IF m.panic THEN m ELSE Value(m.val[1])))

\* Instruction::b_mode
b_mode(w) ==
    Let(opcode(w), LAMBDA o :
        IF o.panic THEN o
        ELSE Let(OpmodesAt(Ordinal(o.val)), LAMBDA m :
                 IF m.panic THEN m ELSE Value(m.val[2])))

\* Instruction::c_mode
c_mode(w) ==
    Let(opcode(w), LAMBDA o :
        IF o.panic THEN o
        ELSE Let(OpmodesAt(Ordinal(o.val)), LAMBDA m :
                 IF m.panic THEN m ELSE Value(m.val[3])))

\* The accessors return the extracted u32; every field is at most 18 bits wide,
\* so the number is held as such.
AsNumber(x) == Let(x, LAMBDA r : IF r.panic THEN r ELSE Value(BitsToNat(r.val)))

\* Instruction::a
a(w) == AsNumber(extract_bits(POS_A, POS_A + SIZE_A, w))

\* Instruction::b reads at POS_C with SIZE_C
b(w) == AsNumber(extract_bits(POS_C, POS_C + SIZE_C, w))

\* Instruction::c reads at POS_B with SIZE_B
c(w) == AsNumber(extract_bits(POS_B, POS_B + SIZE_B, w))

\* Instruction::bx
bx(w) == AsNumber(extract_bits(POS_BX, POS_BX + SIZE_BX, w))

\* i32 arithmetic: a result outside the i32 range is an overflow
\* (a panic in a debug build, a wrapped value in a release build)
I32Max == 2147483647
InI32(x) == x >= -I32Max - 1 /\ x <= I32Max

sbx_NoPlusOne(w) ==
    Let(bx(w), LAMBDA u : IF u.panic THEN u ELSE Value(u.val - 131072))

\* Instruction::sbx: bx as i32, then bx - (1 << 17) + 1
sbx(w) ==
    Let(bx(w), LAMBDA u :
        IF u.panic THEN u
        ELSE Let(u.val - BitsToNat(Shl(One32, 17)), LAMBDA t1 :
             Let(t1 + 1, LAMBDA t2 :
                 IF InI32(t1) /\ InI32(t2) THEN Value(t2)
                 ELSE Panic("attempt to add with overflow"))))

(***************************************************************************)
(* nom: a parser takes the buffer and the offset its input slice starts    *)
(* at.  It answers Ok with the offset after what it consumed, or an error  *)
(* that carries the offset of the input slice it failed on.  The decoder   *)
(* uses nom::error::Error, which keeps one ErrorKind: its append and       *)
(* add_context return the error unchanged, so `context(..)` and the Count  *)
(* of `count(..)` leave no trace.                                          *)
(***************************************************************************)
Ok(pos, val) == [ok |-> TRUE, pos |-> pos, val |-> val]
Err(err, code, pos) == [ok |-> FALSE, err |-> err, code |-> code, pos |-> pos]

Remaining(buf, pos) == Len(buf) - pos

\* nom::number::complete::u8
u8(buf, pos) ==
    IF Remaining(buf, pos) >= 1 THEN Ok(pos + 1, buf[pos + 1])
    ELSE Err("Error", "Eof", pos)

\* nom::bytes::complete::take
take(n, buf, pos) ==
    IF Remaining(buf, pos) >= n THEN Ok(pos + n, SubSeq(buf, pos + 1, pos + n))
    ELSE Err("Error", "Eof", pos)

\* nom::bytes::complete::tag: too few bytes are a mismatch like any other
tag(t, buf, pos) ==
    IF Remaining(buf, pos) >= Len(t) /\ SubSeq(buf, pos + 1, pos + Len(t)) = t
    THEN Ok(pos + Len(t), t)
    ELSE Err("Error", "Tag", pos)

\* nom::combinator::verify(u8, pred)
verify_u8(pred(_), buf, pos) ==
    AndThen(u8(buf, pos), LAMBDA r :
        IF pred(r.val) THEN r ELSE Err("Error", "Verify", pos))

\* The bits of a number given by its bytes, least significant byte first
BytesToBits(bytes) ==
    [i \in 1..(8 * Len(bytes)) |-> (bytes[(i - 1) \div 8 + 1] \div (2 ^ ((i - 1) % 8))) % 2]

Reverse(s) == [i \in 1..Len(s) |-> s[Len(s) + 1 - i]]

\* nom::number::complete::be_u32 / be_u64 (n = 4 / 8)
be_uint(n, buf, pos) ==
    IF Remaining(buf, pos) >= n
    THEN Ok(pos + n, BytesToBits(Reverse(SubSeq(buf, pos + 1, pos + n))))
    ELSE Err("Error", "Eof", pos)

\* nom::number::complete::le_u32 / le_u64 (n = 4 / 8)
le_uint(n, buf, pos) ==
    IF Remaining(buf, pos) >= n
    THEN Ok(pos + n, BytesToBits(SubSeq(buf, pos + 1, pos + n)))
    ELSE Err("Error", "Eof", pos)

\* Parser::map
MapVal(x, f(_)) == AndThen(x, LAMBDA r : Ok(r.pos, f(r.val)))

RECURSIVE count(_, _, _, _)
\* nom::multi::count: `n` runs of the parser, each from where the last one ended
count(parser(_), n, pos, acc) ==
    IF n = 0 THEN Ok(pos, acc)
    ELSE AndThen(parser(pos), LAMBDA r :
             count(parser, n - 1, r.pos, Append(acc, r.val)))

(***************************************************************************)
(* parser/header.rs                                                        *)
(***************************************************************************)
MAGIC_NUMBER == <<27, 76, 117, 97>>
EXPECTED_VERSION == 81
EXPECTED_FORMAT == 0
EXPECTED_SIZE_INT == 4
EXPECTED_SIZE_SIZE_T == 8
EXPECTED_SIZE_INSTRUCTION == 4
EXPECTED_SIZE_NUMBER == 8

parse_endianness_ZeroIsLittle(buf, pos) ==
    MapVal(u8(buf, pos), LAMBDA x : IF x <= 1 THEN "Little" ELSE "Big")

parse_endianness_Flipped(buf, pos) ==
    MapVal(u8(buf, pos), LAMBDA x : IF x = 1 THEN "Big" ELSE "Little")

\* map(u8, |b| match b { 1 => Little, _ => Big })
parse_endianness(buf, pos) ==
    MapVal(u8(buf, pos), LAMBDA x : IF x = 1 THEN "Little" ELSE "Big")

\* context(name, verify(u8, |&v| v == expected))
parse_size(expected, buf, pos) ==
    verify_u8(LAMBDA v : v = expected, buf, pos)

\* parse_header
parse_header(buf, pos) ==
    AndThen(tag(MAGIC_NUMBER, buf, pos), LAMBDA r1 :
    AndThen(verify_u8(LAMBDA v : v = EXPECTED_VERSION, buf, r1.pos), LAMBDA r2 :
    AndThen(verify_u8(LAMBDA f : f = EXPECTED_FORMAT, buf, r2.pos), LAMBDA r3 :
    AndThen(parse_endianness(buf, r3.pos), LAMBDA r4 :
    AndThen(parse_size(EXPECTED_SIZE_INT, buf, r4.pos), LAMBDA r5 :
    AndThen(parse_size(EXPECTED_SIZE_SIZE_T, buf, r5.pos), LAMBDA r6 :
    AndThen(parse_size(EXPECTED_SIZE_INSTRUCTION, buf, r6.pos), LAMBDA r7 :
    AndThen(parse_size(EXPECTED_SIZE_NUMBER, buf, r7.pos), LAMBDA r8 :
    AndThen(MapVal(u8(buf, r8.pos), LAMBDA x : x # 0), LAMBDA r9 :
    Ok(r9.pos,
       [version |-> r2.val, format |-> r3.val, endianness |-> r4.val,
        size_int |-> r5.val, size_size_t |-> r6.val,
        size_instruction |-> r7.val, size_number |-> r8.val,
        integral_flag |-> r9.val]))))))))))

(***************************************************************************)
(* parser/parsers.rs, parser/function.rs: the primitive decoders           *)
(***************************************************************************)
\* parse_integer: be_u32 or le_u32, then `as i32`
parse_integer(buf, pos, h) ==
    IF h.endianness = "Big" THEN MapVal(be_uint(4, buf, pos), AsI32)
    ELSE MapVal(le_uint(4, buf, pos), AsI32)

\* `u32 as u64`: zero extension
ZeroExtend64(bs) == bs \o [i \in 1..(64 - Len(bs)) |-> 0]

\* parse_size_t
parse_size_t(buf, pos, h) ==
    IF h.size_size_t = 4 /\ h.endianness = "Big"
        THEN MapVal(be_uint(4, buf, pos), ZeroExtend64)
    ELSE IF h.size_size_t = 4 /\ h.endianness = "Little"
        THEN MapVal(le_uint(4, buf, pos), ZeroExtend64)
    ELSE IF h.size_size_t = 8 /\ h.endianness = "Big" THEN be_uint(8, buf, pos)
    ELSE IF h.size_size_t = 8 /\ h.endianness = "Little" THEN le_uint(8, buf, pos)
    ELSE Err("Failure", "Verify", pos)

\* String::from_utf8_lossy, the String held as its UTF-8 bytes: well-formed
\* sequences are kept, and each maximal ill-formed part becomes U+FFFD (EF BF BD).
ByteAt(s, i) == IF i <= Len(s) THEN s[i] ELSE 0
IsCont(x) == x \in 128..191
Utf8Second3(b0, b1) ==
    \/ b0 = 224 /\ b1 \in 160..191
    \/ b0 \in 225..236 /\ b1 \in 128..191
    \/ b0 = 237 /\ b1 \in 128..159
    \/ b0 \in 238..239 /\ b1 \in 128..191
Utf8Second4(b0, b1) ==
    \/ b0 = 240 /\ b1 \in 144..191
    \/ b0 \in 241..243 /\ b1 \in 128..191
    \/ b0 = 244 /\ b1 \in 128..143
Utf8Chunk(s, i) ==
    LET b0 == s[i]
        b1 == ByteAt(s, i + 1)
        b2 == ByteAt(s, i + 2)
        b3 == ByteAt(s, i + 3)
        Good(n) == [valid |-> TRUE, n |-> n]
        Bad(n) == [valid |-> FALSE, n |-> n]
    IN  IF b0 < 128 THEN Good(1)
        ELSE IF b0 \in 194..223 THEN (IF IsCont(b1) THEN Good(2) ELSE Bad(1))
        ELSE IF b0 \in 224..239 THEN
            (IF ~Utf8Second3(b0, b1) THEN Bad(1)
             ELSE IF ~IsCont(b2) THEN Bad(2) ELSE Good(3))
        ELSE IF b0 \in 240..244 THEN
            (IF ~Utf8Second4(b0, b1) THEN Bad(1)
             ELSE IF ~IsCont(b2) THEN Bad(2)
             ELSE IF ~IsCont(b3) THEN Bad(3) ELSE Good(4))
        ELSE Bad(1)

REPLACEMENT_CHARACTER == <<239, 191, 189>>

RECURSIVE LossyFrom(_, _)
LossyFrom(s, i) ==
    IF i > Len(s) THEN <<>>
    ELSE Let(Utf8Chunk(s, i), LAMBDA ch :
             (IF ch.valid THEN SubSeq(s, i, i + ch.n - 1) ELSE REPLACEMENT_CHARACTER)
                 \o LossyFrom(s, i + ch.n))

from_utf8_lossy(bytes) == LossyFrom(bytes, 1)

parse_string_NoTerminator(buf, pos, h) ==
    AndThen(parse_size_t(buf, pos, h), LAMBDA r1 :
    IF IsZero(r1.val) THEN Ok(r1.pos, <<>>) ELSE
    AndThen(take(AsCount(SubOne(r1.val)), buf, r1.pos), LAMBDA r2 :
    AndThen(take(1, buf, r2.pos), LAMBDA r3 :
    Ok(r3.pos, from_utf8_lossy(r2.val)))))

\* parse_string.  len.checked_sub(1) cannot fail once len is not 0, and
\* usize::try_from(u64) cannot fail where usize has 64 bits.
parse_string(buf, pos, h) ==
    AndThen(parse_size_t(buf, pos, h), LAMBDA r1 :
    IF IsZero(r1.val) THEN Ok(r1.pos, <<>>) ELSE
    Let(AsCount(SubOne(r1.val)), LAMBDA len_usize :
    AndThen(take(len_usize, buf, r1.pos), LAMBDA r2 :
    AndThen(tag(<<0>>, buf, r2.pos), LAMBDA r3 :
    Ok(r3.pos, from_utf8_lossy(r2.val))))))

\* parse_instruction
parse_instruction(buf, pos, h) ==
    IF h.endianness = "Big" THEN be_uint(4, buf, pos) ELSE le_uint(4, buf, pos)

\* parse_number: take(size_number), then the 8 bytes read as an i64 or an f64 in the
\* header's byte order.  The value is held as its bytes, most significant first.
parse_number(buf, pos, h) ==
    AndThen(take(h.size_number, buf, pos), LAMBDA r :
    IF Len(r.val) # 8 THEN Err("Error", "MapRes", pos)
    ELSE Ok(r.pos, [integral |-> h.integral_flag,
                    bytes |-> IF h.endianness = "Big" THEN r.val ELSE Reverse(r.val)]))

parse_constant_NilTakesNothing(buf, pos, h) ==
    AndThen(u8(buf, pos), LAMBDA t :
    IF t.val = 0 THEN Ok(pos, [type |-> "Nil"])
    ELSE IF t.val = 1 THEN
        MapVal(u8(buf, t.pos), LAMBDA v : [type |-> "Boolean", v |-> (v # 0)])
    ELSE IF t.val = 3 THEN
        MapVal(parse_number(buf, t.pos, h), LAMBDA v : [type |-> "Number", v |-> v])
    ELSE IF t.val = 4 THEN
        MapVal(parse_string(buf, t.pos, h), LAMBDA v : [type |-> "String", v |-> v])
    ELSE Err("Error", "Tag", t.pos))

parse_constant_BooleanIsOne(buf, pos, h) ==
    AndThen(u8(buf, pos), LAMBDA t :
    IF t.val = 0 THEN Ok(t.pos, [type |-> "Nil"])
    ELSE IF t.val = 1 THEN
        MapVal(u8(buf, t.pos), LAMBDA v : [type |-> "Boolean", v |-> (v = 1)])
    ELSE IF t.val = 3 THEN
        MapVal(parse_number(buf, t.pos, h), LAMBDA v : [type |-> "Number", v |-> v])
    ELSE IF t.val = 4 THEN
        MapVal(parse_string(buf, t.pos, h), LAMBDA v : [type |-> "String", v |-> v])
    ELSE Err("Error", "Tag", t.pos))

\* parse_constant
parse_constant(buf, pos, h) ==
    AndThen(u8(buf, pos), LAMBDA t :
    IF t.val = 0 THEN Ok(t.pos, [type |-> "Nil"])
    ELSE IF t.val = 1 THEN
        MapVal(u8(buf, t.pos), LAMBDA v : [type |-> "Boolean", v |-> (v # 0)])
    ELSE IF t.val = 3 THEN
        MapVal(parse_number(buf, t.pos, h), LAMBDA v : [type |-> "Number", v |-> v])
    ELSE IF t.val = 4 THEN
        MapVal(parse_string(buf, t.pos, h), LAMBDA v : [type |-> "String", v |-> v])
    ELSE Err("Error", "Tag", t.pos))

\* `i32 as u32`: the same 32 bits
AsU32(n) ==
    IF n >= 0 THEN ToBits(n, 31) \o <<0>>
    ELSE ToBits((n + 1073741824) + 1073741824, 31) \o <<1>>

usize_try_from_NegativeIsEmpty(len, pos) == Ok(pos, IF len < 0 THEN 0 ELSE len)

\* usize::try_from(len).map_err(|_| Err::Failure(Error::new(input, TooLarge)))
usize_try_from(len, pos) ==
    IF len < 0 THEN Err("Failure", "TooLarge", pos) ELSE Ok(pos, len)

\* parse_section: the count is a parse_integer; usize::try_from fails on a negative one
parse_section(parser(_), buf, pos, h) ==
    AndThen(parse_integer(buf, pos, h), LAMBDA r :
    IF ~usize_try_from(r.val, r.pos).ok THEN usize_try_from(r.val, r.pos)
    ELSE count(parser, usize_try_from(r.val, r.pos).val, r.pos, <<>>))

\* parse_local_variable
parse_local_variable(buf, pos, h) ==
    AndThen(parse_string(buf, pos, h), LAMBDA r1 :
    AndThen(parse_integer(buf, r1.pos, h), LAMBDA r2 :
    AndThen(parse_integer(buf, r2.pos, h), LAMBDA r3 :
    Ok(r3.pos, [varname |-> r1.val, startpc |-> AsU32(r2.val),
                endpc |-> AsU32(r3.val)]))))

parse_debug_info_EmptyOnError(buf, pos, h) ==
    Let(parse_section(LAMBDA i : parse_integer(buf, i, h), buf, pos, h), LAMBDA r1 :
    IF ~r1.ok THEN Ok(pos, [lineinfo |-> <<>>, locals |-> <<>>, upvalues |-> <<>>]) ELSE
    AndThen(parse_section(LAMBDA i : parse_local_variable(buf, i, h), buf, r1.pos, h),
            LAMBDA r2 :
    AndThen(parse_section(LAMBDA i : parse_string(buf, i, h), buf, r2.pos, h),
            LAMBDA r3 :
    Ok(r3.pos, [lineinfo |-> [k \in 1..Len(r1.val) |-> AsU32(r1.val[k])],
                locals |-> r2.val, upvalues |-> r3.val]))))

\* parse_debug_info
parse_debug_info(buf, pos, h) ==
    AndThen(parse_section(LAMBDA i : parse_integer(buf, i, h), buf, pos, h),
            LAMBDA r1 :
    AndThen(parse_section(LAMBDA i : parse_local_variable(buf, i, h), buf, r1.pos, h),
            LAMBDA r2 :
    AndThen(parse_section(LAMBDA i : parse_string(buf, i, h), buf, r2.pos, h),
            LAMBDA r3 :
    Ok(r3.pos, [lineinfo |-> [k \in 1..Len(r1.val) |-> AsU32(r1.val[k])],
                locals |-> r2.val, upvalues |-> r3.val]))))

parse_function_head_ParamsFirst(buf, pos, h) ==
    AndThen(parse_string(buf, pos, h), LAMBDA r1 :
    AndThen(parse_integer(buf, r1.pos, h), LAMBDA r2 :
    AndThen(parse_integer(buf, r2.pos, h), LAMBDA r3 :
    AndThen(u8(buf, r3.pos), LAMBDA r4 :
    AndThen(u8(buf, r4.pos), LAMBDA r5 :
    AndThen(u8(buf, r5.pos), LAMBDA r6 :
    AndThen(u8(buf, r6.pos), LAMBDA r7 :
    Ok(r7.pos,
       [source_name |-> r1.val, line_defined |-> r2.val,
        last_line_defined |-> r3.val, num_upvalues |-> r5.val,
        num_params |-> r4.val, is_vararg |-> r6.val,
        max_stack_size |-> r7.val]))))))))

\* parse_function, its first seven fields: the source name, the two lines, the four bytes
parse_function_head(buf, pos, h) ==
    AndThen(parse_string(buf, pos, h), LAMBDA r1 :
    AndThen(parse_integer(buf, r1.pos, h), LAMBDA r2 :
    AndThen(parse_integer(buf, r2.pos, h), LAMBDA r3 :
    AndThen(u8(buf, r3.pos), LAMBDA r4 :
    AndThen(u8(buf, r4.pos), LAMBDA r5 :
    AndThen(u8(buf, r5.pos), LAMBDA r6 :
    AndThen(u8(buf, r6.pos), LAMBDA r7 :
    Ok(r7.pos,
       [source_name |-> r1.val, line_defined |-> r2.val,
        last_line_defined |-> r3.val, num_upvalues |-> r4.val,
        num_params |-> r5.val, is_vararg |-> r6.val,
        max_stack_size |-> r7.val]))))))))

\* parse_function, up to the constants: the fields before the nested prototypes
parse_function_fields(buf, pos, h) ==
    AndThen(parse_function_head(buf, pos, h), LAMBDA r7 :
    AndThen(parse_section(LAMBDA i : parse_instruction(buf, i, h), buf, r7.pos, h),
            LAMBDA r8 :
    AndThen(parse_section(LAMBDA i : parse_constant(buf, i, h), buf, r8.pos, h),
            LAMBDA r9 :
    Ok(r9.pos,
       [source_name |-> r7.val.source_name, line_defined |-> r7.val.line_defined,
        last_line_defined |-> r7.val.last_line_defined,
        num_upvalues |-> r7.val.num_upvalues, num_params |-> r7.val.num_params,
        is_vararg |-> r7.val.is_vararg, max_stack_size |-> r7.val.max_stack_size,
        code |-> r8.val, constants |-> r9.val]))))

RECURSIVE parse_function(_, _, _)

parse_prototypes_DropLast(buf, pos, h) ==
    AndThen(parse_section(LAMBDA i : parse_function(buf, i, h), buf, pos, h),
            LAMBDA all :
        IF Len(all.val) > 1 THEN Ok(all.pos, SubSeq(all.val, 1, Len(all.val) - 1))
        ELSE all)

\* parse_function, the section of nested prototypes
parse_prototypes(buf, pos, h) ==
    parse_section(LAMBDA i : parse_function(buf, i, h), buf, pos, h)

\* parse_function: the fields, the nested prototypes, the debug information
parse_function(buf, pos, h) ==
    AndThen(parse_function_fields(buf, pos, h), LAMBDA r9 :
    AndThen(parse_prototypes(buf, r9.pos, h), LAMBDA r10 :
    AndThen(parse_debug_info(buf, r10.pos, h), LAMBDA r11 :
    Ok(r11.pos,
       [source_name |-> r9.val.source_name, line_defined |-> r9.val.line_defined,
        last_line_defined |-> r9.val.last_line_defined,
        num_upvalues |-> r9.val.num_upvalues, num_params |-> r9.val.num_params,
        is_vararg |-> r9.val.is_vararg, max_stack_size |-> r9.val.max_stack_size,
        code |-> r9.val.code, constants |-> r9.val.constants,
        prototypes |-> r10.val, debug_info |-> r11.val]))))

(***************************************************************************)
(* parser/mod.rs                                                           *)
(***************************************************************************)
trailing_check_Skipped(buf, h, f) == Ok(f.pos, [header |-> h.val, prototype |-> f.val])

\* The end of parse_lua_bytecode: leftover input is an Eof error on the leftover
trailing_check(buf, h, f) ==
    IF Remaining(buf, f.pos) # 0 THEN Err("Error", "Eof", f.pos)
    ELSE Ok(f.pos, [header |-> h.val, prototype |-> f.val])

\* parse_lua_bytecode
parse_lua_bytecode(buf) ==
    AndThen(parse_header(buf, 0), LAMBDA h :
    AndThen(parse_function(buf, h.pos, h.val), LAMBDA f :
    trailing_check(buf, h, f)))

(***************************************************************************)
(* The instruction words the accessors are applied to: every 6-bit opcode  *)
(* field with operand fields drawn from the ends and the middle of their   *)
(* ranges.                                                                 *)
(***************************************************************************)
FieldLow == 1

FieldSamples(w) == (0..(FieldLow - 1)) \cup {2 ^ (w - 1) - 1, 2 ^ (w - 1), 2 ^ w - 1}

Words ==
    { ToBits(op, SIZE_OP) \o ToBits(fa, SIZE_A) \o ToBits(f14, 9) \o ToBits(f23, 9) :
        op \in 0..(2 ^ SIZE_OP - 1), fa \in FieldSamples(SIZE_A),
        f14 \in FieldSamples(9), f23 \in FieldSamples(9) }

Shown(f, r) == [fn |-> f, res |-> r]

ParserIdle == UNCHANGED <<instr, bytecode, pc, header, prototype, outcome, nfiles>>

CallOpcode == shown' = Shown("opcode", opcode(instr)) /\ ParserIdle
CallFormat == shown' = Shown("format", format(instr)) /\ ParserIdle
CallA == shown' = Shown("a", a(instr)) /\ ParserIdle
CallB == shown' = Shown("b", b(instr)) /\ ParserIdle
CallBMode == shown' = Shown("b_mode", b_mode(instr)) /\ ParserIdle
CallC == shown' = Shown("c", c(instr)) /\ ParserIdle
CallCMode == shown' = Shown("c_mode", c_mode(instr)) /\ ParserIdle
CallBx == shown' = Shown("bx", bx(instr)) /\ ParserIdle
CallSbx == shown' = Shown("sbx", sbx(instr)) /\ ParserIdle

InitInstr ==
    /\ instr \in Words
    /\ shown = None
    /\ bytecode = <<>>
    /\ pc = "idle"
    /\ header = None
    /\ prototype = None
    /\ outcome = None
    /\ nfiles = 0

NextInstr ==
    \/ CallOpcode
    \/ CallFormat
    \/ CallA
    \/ CallB
    \/ CallBMode
    \/ CallC
    \/ CallCMode
    \/ CallBx
    \/ CallSbx

SpecInstr == InitInstr /\ [][NextInstr]_vars

(***************************************************************************)
(* The input files.  A file is written here the way luac's dump lays it    *)
(* out, from a description of its header bytes and its prototype tree;     *)
(* the malformed files are well-formed ones cut short, extended, or with   *)
(* one byte changed.                                                       *)
(***************************************************************************)
MaxFiles == 1
MaxChildren == 2
MaxExtra == 2

Little == "Little"
Big == "Big"

\* The byte order an endianness byte announces
OrderOf(eb) == IF eb = 1 THEN Little ELSE Big

Zeros(n) == [i \in 1..n |-> 0]

\* The 4 bytes of a 32-bit value in the given order
EncU32(n, e) ==
    LET bits == AsU32(n)
        le == [k \in 1..4 |-> BitsToNat(SubSeq(bits, 8 * k - 7, 8 * k))]
    IN  IF e = Little THEN le ELSE Reverse(le)

\* The 8 bytes of a size_t below 2^31
EncSize(n, e) ==
    IF e = Little THEN EncU32(n, Little) \o Zeros(4) ELSE Zeros(4) \o EncU32(n, Big)

NoStr == [has |-> FALSE, s |-> <<>>]
Str(s) == [has |-> TRUE, s |-> s]

\* A string: size 0 for none, else the size with the terminator, the bytes, NUL
EncString(d, e) ==
    IF ~d.has THEN EncSize(0, e)
    ELSE EncSize(Len(d.s) + 1, e) \o d.s \o <<0>>

RECURSIVE Flatten(_)
Flatten(ss) == IF ss = <<>> THEN <<>> ELSE ss[1] \o Flatten(Tail(ss))

EncSection(items, e) == EncU32(Len(items), e) \o Flatten(items)

EncConstant(k, e) ==
    IF k.type = "Raw" THEN k.bytes
    ELSE IF k.type = "Nil" THEN <<0>>
    ELSE IF k.type = "Boolean" THEN <<1, k.byte>>
    ELSE IF k.type = "Number" THEN <<3>> \o k.bytes
    ELSE <<4>> \o EncString(k.str, e)

EncLocal(l, e) == EncString(l.name, e) \o EncU32(l.startpc, e) \o EncU32(l.endpc, e)

RECURSIVE EncProto(_, _)
EncProto(p, e) ==
    EncString(p.name, e) \o EncU32(p.line, e) \o EncU32(p.last, e)
        \o <<p.nups, p.nparams, p.vararg, p.maxstack>>
        \o EncSection([k \in 1..Len(p.code) |-> EncU32(p.code[k], e)], e)
        \o EncSection([k \in 1..Len(p.constants) |-> EncConstant(p.constants[k], e)], e)
        \o EncSection([k \in 1..Len(p.protos) |-> EncProto(p.protos[k], e)], e)
        \o EncSection([k \in 1..Len(p.lineinfo) |-> EncU32(p.lineinfo[k], e)], e)
        \o EncSection([k \in 1..Len(p.locals) |-> EncLocal(p.locals[k], e)], e)
        \o EncSection([k \in 1..Len(p.upvalues) |-> EncString(p.upvalues[k], e)], e)

EncHeader(eb, fl) ==
    MAGIC_NUMBER \o <<EXPECTED_VERSION, EXPECTED_FORMAT, eb,
                      EXPECTED_SIZE_INT, EXPECTED_SIZE_SIZE_T,
                      EXPECTED_SIZE_INSTRUCTION, EXPECTED_SIZE_NUMBER, fl>>

EncFile(eb, fl, p) == EncHeader(eb, fl) \o EncProto(p, OrderOf(eb))

MinimalProto ==
    [name |-> NoStr, line |-> 0, last |-> 0, nups |-> 0, nparams |-> 0,
     vararg |-> 0, maxstack |-> 0, code |-> <<>>, constants |-> <<>>,
     protos |-> <<>>, lineinfo |-> <<>>, locals |-> <<>>, upvalues |-> <<>>]

\* The k-th child of a family: told apart by its name and its line
Child(k) == [MinimalProto EXCEPT !.name = Str(<<96 + k>>), !.line = k]

\* A root with n children, none of which has children
Family(n) == [MinimalProto EXCEPT !.protos = [k \in 1..n |-> Child(k)]]

\* A root whose only child has one child of its own
Chain ==
    [MinimalProto EXCEPT !.protos = << [Child(1) EXCEPT !.protos = <<Child(2)>>] >>]

Names ==
    { Str(<<>>), Str(<<97>>), Str(<<64, 97, 46, 108>>), Str(<<255>>),
      Str(<<195, 169>>), Str(<<97, 0, 98>>), Str(<<226, 130>>) }

Named(d) == [MinimalProto EXCEPT !.name = d]

Rich ==
    [MinimalProto EXCEPT
        !.name = Str(<<64, 120>>), !.line = 1, !.last = 258,
        !.nups = 1, !.nparams = 2, !.vararg = 3, !.maxstack = 4,
        !.code = <<1, 8388638, 1073741824 + 22>>,
        !.constants = << [type |-> "Nil"], [type |-> "String", str |-> Str(<<104, 105>>)],
                         [type |-> "Boolean", byte |-> 1],
                         [type |-> "Boolean", byte |-> 0],
                         [type |-> "Number", bytes |-> <<1, 2, 3, 4, 5, 6, 7, 8>>] >>,
        !.protos = <<Child(1)>>,
        !.lineinfo = <<1, 2, 2>>,
        !.locals = << [name |-> Str(<<105>>), startpc |-> 0, endpc |-> 3] >>,
        !.upvalues = << Str(<<117>>) >>]

Protos ==
    {Family(n) : n \in 0..MaxChildren} \cup {Named(d) : d \in Names} \cup {Chain, Rich}

EndianBytes == {0, 1, 2}
FlagBytes == {0, 1, 255}

ValidFiles == {EncFile(eb, fl, p) : eb \in EndianBytes, fl \in FlagBytes, p \in Protos}

MinimalFile(eb, fl) == EncFile(eb, fl, MinimalProto)

Mutate(f, i, v) == [f EXCEPT ![i] = v]

MutBytes == {0, 1, 4, 8, 81, 255}

\* One byte of the header changed
HeaderMutants ==
    { Mutate(MinimalFile(eb, 0), i, v) : eb \in {0, 1}, i \in 1..12, v \in MutBytes }

\* One byte after the header changed
BodyMutants ==
    { Mutate(EncFile(eb, 0, Named(Str(<<97>>))), i, v) :
        eb \in {0, 1}, i \in 13..24, v \in {1, 2, 255} }
    \cup { Mutate(EncFile(eb, 0, Rich), i, v) :
        eb \in {0, 1}, i \in 13..Len(EncFile(1, 0, Rich)), v \in {255} }

CutBases ==
    { EncFile(eb, 0, p) : eb \in {0, 1}, p \in {MinimalProto, Named(Str(<<97>>)), Rich} }

\* A well-formed file cut short
CutFiles == UNION { { SubSeq(f, 1, k) : k \in 0..(Len(f) - 1) } : f \in CutBases }

ExtraTails == UNION { [1..n -> {0, 255}] : n \in 1..MaxExtra }

\* A well-formed file with bytes after its end
ExtendedFiles ==
    { f \o t : f \in {EncFile(eb, 0, p) : eb \in {0, 1}, p \in {MinimalProto, Chain}},
               t \in ExtraTails }

\* The bytes of one constant: a tag byte of each kind, followed by what it announces
ConstantBytes ==
    { <<0>>, <<1, 0>>, <<1, 1>>, <<1, 2>>, <<1, 255>>, <<2>>, <<2, 1>>,
      <<3, 1, 2, 3, 4, 5, 6, 7, 8>>, <<5>>, <<255>> }
    \cup { <<4>> \o EncString(Str(<<104, 105>>), e) : e \in {Little, Big} }
    \cup { <<4>> \o EncString(NoStr, Little) }

\* A file whose root has one constant and nothing else
ConstantFiles ==
    { EncFile(eb, fl, [MinimalProto EXCEPT
                          !.constants = << [type |-> "Raw", bytes |-> k] >>]) :
        eb \in {0, 1}, fl \in {0, 1}, k \in ConstantBytes }

Files ==
    ValidFiles \cup HeaderMutants \cup BodyMutants \cup CutFiles \cup ExtendedFiles
        \cup ConstantFiles

(***************************************************************************)
(* main.rs: for each file, read it, parse it, report                       *)
(***************************************************************************)
InstrIdle == UNCHANGED <<instr, shown>>

\* read_file succeeded
ReadFile ==
    /\ pc = "next"
    /\ nfiles < MaxFiles
    /\ \E f \in Files : bytecode' = f
    /\ nfiles' = nfiles + 1
    /\ pc' = "read"
    /\ UNCHANGED <<header, prototype, outcome>>
    /\ InstrIdle

\* read_file failed: the error is printed and the process exits with status 1
ReadFileFails ==
    /\ pc = "next"
    /\ nfiles < MaxFiles
    /\ nfiles' = nfiles + 1
    /\ pc' = "exit"
    /\ UNCHANGED <<bytecode, header, prototype, outcome>>
    /\ InstrIdle

\* parse_lua_bytecode, `parse_header(input)?`
ParseHeader ==
    /\ pc = "read"
    /\ header' = parse_header(bytecode, 0)
    /\ IF header'.ok
       THEN pc' = "header" /\ UNCHANGED outcome
       ELSE pc' = "done" /\ outcome' = header'
    /\ UNCHANGED <<bytecode, prototype, nfiles>>
    /\ InstrIdle

\* parse_lua_bytecode, `parse_function(input, &header)?`
ParseFunction ==
    /\ pc = "header"
    /\ prototype' = parse_function(bytecode, header.pos, header.val)
    /\ IF prototype'.ok
       THEN pc' = "function" /\ UNCHANGED outcome
       ELSE pc' = "done" /\ outcome' = prototype'
    /\ UNCHANGED <<bytecode, header, nfiles>>
    /\ InstrIdle

\* parse_lua_bytecode, the check for remaining bytes and the Ok
CheckTrailing ==
    /\ pc = "function"
    /\ outcome' = trailing_check(bytecode, header, prototype)
    /\ pc' = "done"
    /\ UNCHANGED <<bytecode, header, prototype, nfiles>>
    /\ InstrIdle

\* main's match on the result; the buffer and the result are dropped
Report ==
    /\ pc = "done"
    /\ pc' = "next"
    /\ bytecode' = <<>>
    /\ header' = None
    /\ prototype' = None
    /\ outcome' = None
    /\ UNCHANGED nfiles
    /\ InstrIdle

Init ==
    /\ instr = [i \in 1..32 |-> 0]
    /\ shown = None
    /\ bytecode = <<>>
    /\ pc = "next"
    /\ header = None
    /\ prototype = None
    /\ outcome = None
    /\ nfiles = 0

Next ==
    \/ ReadFile
    \/ ReadFileFails
    \/ ParseHeader
    \/ ParseFunction
    \/ CheckTrailing
    \/ Report

Spec == Init /\ [][Next]_vars

(***************************************************************************)
(* Instruction claims                                                      *)
(***************************************************************************)
\* The documented layout: the unsigned value of the `size` bits of w from bit `pos` up,
\* that is (w >> pos) mod 2^size.
FieldAt(w, pos, size) == BitsToNat(SubSeq(w, pos + 1, pos + size))

Called(f) == shown # None /\ shown.fn = f

\* C1: a(w) = (w >> 6) mod 2^8, c(w) = (w >> 14) mod 2^9 and b(w) = (w >> 23) mod 2^9:
\* the fields lie low-to-high as OP, A, C, B.
C1_OperandFields ==
    /\ Called("a") => shown.res = Value(FieldAt(instr, 6, 8))
    /\ Called("c") => shown.res = Value(FieldAt(instr, 14, 9))
    /\ Called("b") => shown.res = Value(FieldAt(instr, 23, 9))

\* C2: opcode, format, b_mode and c_mode read the low 6 bits; for 0..37 they
\* answer for the opcode of that ordinal, and for 38..63 they hand an
\* InvalidOpcode error value back to the caller without panicking.
C2_InvalidOpcodeIsReturned ==
    \A f \in {"opcode", "format", "b_mode", "c_mode"} :
        Called(f) =>
            /\ ~shown.res.panic
            /\ (f = "opcode" /\ FieldAt(instr, 0, 6) < 38) =>
                    shown.res.val = Opcode[FieldAt(instr, 0, 6) + 1]

\* C8: bx(w) = (w >> 14) mod 2^18 and sbx(w) = bx(w) - 131071, which lies in
\* -131071..131072 and is computed without 32-bit overflow.
C8_BxSbx ==
    /\ Called("bx") => shown.res = Value(FieldAt(instr, 14, 18))
    /\ Called("sbx") =>
            /\ shown.res = Value(FieldAt(instr, 14, 18) - 131071)
            /\ shown.res.val \in -131071..131072
            /\ (FieldAt(instr, 14, 18) = 131071) => shown.res.val = 0

C8_Witness ==
    /\ Called("sbx")
    /\ FieldAt(instr, 14, 18) = 131071
    /\ shown.res = Value(0)

\* The Lua 5.1 table luaP_opmodes (lopcodes.c), by opcode name.
Lua51Format(name) ==
    IF name \in {"LOADK", "GETGLOBAL", "SETGLOBAL", "CLOSURE"} THEN "IABx"
    ELSE IF name \in {"JMP", "FORLOOP", "FORPREP"} THEN "IAsBx"
    ELSE "IABC"

Lua51BMode(name) ==
    IF name \in {"TFORLOOP", "CLOSE"} THEN "OpArgN"
    ELSE IF name \in {"LOADBOOL", "GETUPVAL", "SETUPVAL", "NEWTABLE", "CALL", "TAILCALL",
                      "RETURN", "SETLIST", "CLOSURE", "VARARG"} THEN "OpArgU"
    ELSE IF name \in {"LOADK", "GETGLOBAL", "SETGLOBAL", "SETTABLE", "ADD", "SUB", "MUL",
                      "DIV", "MOD", "POW", "EQ", "LT", "LE"} THEN "OpArgK"
    ELSE "OpArgR"

Lua51CMode(name) ==
    IF name \in {"GETTABLE", "SETTABLE", "SELF", "ADD", "SUB", "MUL", "DIV", "MOD", "POW",
                 "EQ", "LT", "LE"} THEN "OpArgK"
    ELSE IF name \in {"LOADBOOL", "NEWTABLE", "TEST", "TESTSET", "CALL", "TAILCALL",
                      "TFORLOOP", "SETLIST"} THEN "OpArgU"
    ELSE IF name = "CONCAT" THEN "OpArgR"
    ELSE "OpArgN"

Lua51Order ==
    << "MOVE", "LOADK", "LOADBOOL", "LOADNIL", "GETUPVAL", "GETGLOBAL", "GETTABLE",
       "SETGLOBAL", "SETUPVAL", "SETTABLE", "NEWTABLE", "SELF", "ADD", "SUB", "MUL",
       "DIV", "MOD", "POW", "UNM", "NOT", "LEN", "CONCAT", "JMP", "EQ", "LT", "LE",
       "TEST", "TESTSET", "CALL", "TAILCALL", "RETURN", "FORLOOP", "FORPREP",
       "TFORLOOP", "SETLIST", "CLOSE", "CLOSURE", "VARARG" >>

\* C9: the table has 38 entries, one per opcode ordinal in the order MOVE..VARARG,
\* each the Lua 5.1 (format, B-mode, C-mode); ordinal 0 is MOVE with IABC, OpArgR,
\* OpArgN, and every IABx or IAsBx opcode has C-mode OpArgN.
C9_OpmodeTable ==
    /\ Len(OPMODES) = 38 /\ TOTAL_OPS = 38 /\ Opcode = Lua51Order
    /\ \A f \in {"format", "b_mode", "c_mode"} :
          (Called(f) /\ FieldAt(instr, 0, 6) < 38) =>
             LET k == FieldAt(instr, 0, 6)
                 name == Lua51Order[k + 1]
             IN  /\ ~shown.res.panic
                 /\ f = "format" => shown.res.val = Lua51Format(name)
                 /\ f = "b_mode" => shown.res.val = Lua51BMode(name)
                 /\ f = "c_mode" => shown.res.val = Lua51CMode(name)
                 /\ (k = 0 /\ f = "format") => shown.res.val = "IABC"
                 /\ (k = 0 /\ f = "b_mode") => shown.res.val = "OpArgR"
                 /\ (k = 0 /\ f = "c_mode") => shown.res.val = "OpArgN"
                 /\ (f = "c_mode" /\ format(instr).val \in {"IABx", "IAsBx"}) =>
                        shown.res.val = "OpArgN"

C9_Witness ==
    /\ Called("c_mode")
    /\ FieldAt(instr, 0, 6) = 37
    /\ shown.res = Value("OpArgN")

(***************************************************************************)
(* Decoder claims                                                          *)
(***************************************************************************)
\* The files of the model that parse_lua_bytecode decodes
DecodableFiles == { f \in Files : parse_lua_bytecode(f).ok }

Prefix(buf, k) == SubSeq(buf, 1, k)

\* The bytes a header must hold at the offsets that are checked (0-based 0..5, 7..10)
CheckedAt == {1, 2, 3, 4, 5, 6, 8, 9, 10, 11}
RequiredByte(i) == <<27, 76, 117, 97, 81, 0, 0, 4, 8, 4, 8>>[i]
WrongAt(buf) == { i \in CheckedAt : buf[i] # RequiredByte(i) }

StartsWithValidHeader(buf) == Len(buf) >= 12 /\ WrongAt(buf) = {}

\* C3: on a buffer that starts with 1B 4C 75 61, 0x51, 0x00, any endianness byte, the
\* widths 4, 8, 4, 8 and any flag byte, parse_header succeeds, consumes those 12 bytes
\* and returns the header they spell: Little iff the endianness byte is 1, and the
\* integral flag set iff the flag byte is not 0.
C3_ValidHeader ==
    (header # None /\ StartsWithValidHeader(bytecode)) =>
        header = Ok(12, [version |-> 81, format |-> 0,
                         endianness |-> IF bytecode[7] = 1 THEN "Little" ELSE "Big",
                         size_int |-> 4, size_size_t |-> 8,
                         size_instruction |-> 4, size_number |-> 8,
                         integral_flag |-> (bytecode[12] # 0)])

C3_Witness ==
    /\ header # None /\ StartsWithValidHeader(bytecode)
    /\ bytecode[7] = 2 /\ bytecode[12] = 255
    /\ header.ok /\ header.pos = 12
    /\ header.val.endianness = "Big" /\ header.val.integral_flag

\* The header field a checked byte belongs to
FieldOf(i) ==
    IF i <= 4 THEN "magic"
    ELSE <<"version", "format", "endianness", "int", "size_t", "instruction", "number">>[i - 4]

OneByteChanged(buf) == Len(buf) >= 12 /\ Cardinality(WrongAt(buf)) = 1
ChangedField(buf) == FieldOf(CHOOSE i \in WrongAt(buf) : TRUE)

\* What an error lets its receiver match on: the nom::Err variant and the ErrorKind
KindOf(r) == IF r.ok THEN <<"Ok">> ELSE <<r.err, r.code>>

\* C4: with exactly one byte of the magic, the version, the format or a width changed,
\* parse_header fails with the error kind of that field, so that the errors of two
\* different changed fields differ in kind.
C4_FieldSpecificKind ==
    (header # None /\ OneByteChanged(bytecode)) =>
        /\ ~header.ok
        /\ \A g \in HeaderMutants :
              (OneByteChanged(g) /\ ChangedField(g) # ChangedField(bytecode)) =>
                  KindOf(parse_header(g, 0)) # KindOf(header)

\* Running out of input: nom's Eof
IsTruncated(r) == ~r.ok /\ r.err = "Error" /\ r.code = "Eof"

CutShort(buf) == \E f \in DecodableFiles : Len(buf) < Len(f) /\ buf = Prefix(f, Len(buf))

\* C5: on every proper prefix of a buffer that decodes, parse_lua_bytecode returns a
\* Truncated error: no panic, no other error kind, no success.
C5_PrefixIsTruncated ==
    (pc = "done" /\ CutShort(bytecode)) => IsTruncated(outcome)

\* C6: the valid header followed by the minimal prototype (44 zero bytes) decodes with
\* the whole buffer consumed; and a buffer that is a decodable buffer followed by one
\* or more bytes fails with the trailing-data error, raised on the leftover bytes.
C6_TrailingData ==
    /\ (pc = "done" /\ StartsWithValidHeader(bytecode) /\ Len(bytecode) = 56
           /\ \A i \in 13..56 : bytecode[i] = 0) =>
          (outcome.ok /\ outcome.pos = Len(bytecode))
    /\ pc = "done" =>
          \A k \in 0..(Len(bytecode) - 1) :
              Prefix(bytecode, k) \in DecodableFiles => outcome = Err("Error", "Eof", k)

C6_Witness ==
    /\ pc = "done"
    /\ Len(bytecode) = 58
    /\ Prefix(bytecode, 56) \in DecodableFiles
    /\ outcome = Err("Error", "Eof", 56)

\* The size prefix of the string at offset 12 (the source name), as the header's byte
\* order reads it, least significant byte first
SizeBytes(buf, e) == IF e = "Little" THEN SubSeq(buf, 13, 20) ELSE Reverse(SubSeq(buf, 13, 20))
SmallSize(sb) == \A i \in 4..8 : sb[i] = 0
SizeOf(sb) == sb[1] + 256 * sb[2] + 65536 * sb[3]

AllAscii(s) == \A i \in 1..Len(s) : s[i] < 128

\* What C7 says of parse_string at the source name, `same(content, val)` being what it
\* says of the string returned for the content bytes
StringContract(same(_, _)) ==
    (prototype # None /\ header.ok /\ Len(bytecode) >= 20
        /\ SmallSize(SizeBytes(bytecode, header.val.endianness))) =>
        LET n == SizeOf(SizeBytes(bytecode, header.val.endianness))
            r == parse_string(bytecode, 12, header.val)
        IN  /\ n = 0 => r = Ok(20, <<>>)
            /\ (n >= 1 /\ Len(bytecode) >= 20 + n) =>
                  IF bytecode[20 + n] = 0
                  THEN r.ok /\ r.pos = 20 + n /\ same(SubSeq(bytecode, 21, 19 + n), r.val)
                  ELSE r = Err("Error", "Tag", 19 + n)
            /\ ~r.ok => prototype = r
            /\ (r.ok /\ prototype.ok) => prototype.val.source_name = r.val

\* C7 as stated: for n = 0 the empty string with only the prefix consumed; for n >= 1
\* exactly n-1 content bytes and a terminator consumed and those n-1 bytes returned as
\* the string; a terminator that is not 0x00 is the bad-encoding error.
C7_StringBytesReturned ==
    StringContract(LAMBDA content, val : val = content)

\* C7 as amended: the string returned is the lossy UTF-8 decoding of the n-1 content
\* bytes: those bytes when they are well-formed UTF-8 (ASCII in particular), and with
\* U+FFFD in place of each ill-formed part otherwise.
C7_StringLossy ==
    StringContract(LAMBDA content, val :
        /\ val = from_utf8_lossy(content)
        /\ AllAscii(content) => val = content
        /\ content = <<195, 169>> => val = content
        /\ content = <<255>> => val = <<239, 191, 189>>
        /\ content = <<226, 130>> => val = <<239, 191, 189>>)

C7_Witness ==
    /\ prototype # None /\ header.ok /\ prototype.ok
    /\ SubSeq(bytecode, 13, 22) = <<2, 0, 0, 0, 0, 0, 0, 0, 255, 0>>
    /\ prototype.val.source_name = <<239, 191, 189>>

\* The files whose root declares n children that declare none
FamilyFiles ==
    [n \in 0..MaxChildren |->
        { EncFile(eb, fl, Family(n)) : eb \in EndianBytes, fl \in FlagBytes }]

RECURSIVE Depth(_)
Max(S) == CHOOSE x \in S : \A y \in S : y <= x
Depth(p) == 1 + Max({0} \cup { Depth(p.prototypes[k]) : k \in 1..Len(p.prototypes) })

\* C10: a root that declares n nested prototypes, followed by n well-formed ones,
\* decodes to a prototype with exactly those n children in buffer order, each what
\* parse_function yields where the one before ended; 2 children without children of
\* their own give a tree of depth 2.
C10_NestedPrototypes ==
    \A n \in 0..MaxChildren :
        (pc = "done" /\ bytecode \in FamilyFiles[n]) =>
            /\ outcome.ok
            /\ LET kids == outcome.val.prototype.prototypes
               IN  /\ Len(kids) = n
                   /\ \A k \in 1..n :
                        /\ kids[k].line_defined = k
                        /\ kids[k].source_name = <<96 + k>>
                        /\ kids[k].prototypes = <<>>
                        /\ parse_function(bytecode, 44 + 46 * (k - 1), header.val)
                              = Ok(44 + 46 * k, kids[k])
                   /\ n >= 1 => Depth(outcome.val.prototype) = 2
                   /\ n = 0 => Depth(outcome.val.prototype) = 1

C10_Witness ==
    /\ pc = "done" /\ bytecode \in FamilyFiles[2]
    /\ outcome.ok
    /\ Len(outcome.val.prototype.prototypes) = 2
    /\ Depth(outcome.val.prototype) = 2

\* A root with no source name and no code, the header's integer 1 as its count of
\* constants: the first constant starts at offset 40
CountBytes(buf, at, e) ==
    IF e = "Little" THEN SubSeq(buf, at + 1, at + 4) ELSE Reverse(SubSeq(buf, at + 1, at + 4))

OneConstantAt40(buf, e) ==
    /\ Len(buf) >= 41
    /\ \A i \in 13..20 : buf[i] = 0
    /\ \A i \in 33..36 : buf[i] = 0
    /\ CountBytes(buf, 36, e) = <<1, 0, 0, 0>>

\* C11: parse_constant reads one tag byte: 0x00 is Nil with nothing more consumed;
\* 0x01 consumes one byte and is Boolean(true) iff that byte is not 0; 0x03 is the
\* Number parse_number yields; 0x04 is the String parse_string yields; every other
\* tag fails with the bad-tag error (nom's ErrorKind::Tag).
C11_ConstantTags ==
    (prototype # None /\ header.ok /\ OneConstantAt40(bytecode, header.val.endianness)) =>
        LET t == bytecode[41]
            r == parse_constant(bytecode, 40, header.val)
        IN  /\ t = 0 => r = Ok(41, [type |-> "Nil"])
            /\ (t = 1 /\ Len(bytecode) >= 42) =>
                   r = Ok(42, [type |-> "Boolean", v |-> (bytecode[42] # 0)])
            /\ t = 3 =>
                   LET n == parse_number(bytecode, 41, header.val)
                   IN  IF n.ok THEN r = Ok(n.pos, [type |-> "Number", v |-> n.val])
                       ELSE r = n
            /\ t = 4 =>
                   LET d == parse_string(bytecode, 41, header.val)
                   IN  IF d.ok THEN r = Ok(d.pos, [type |-> "String", v |-> d.val])
                       ELSE r = d
            /\ t \notin {0, 1, 3, 4} => r = Err("Error", "Tag", 41)
            /\ ~r.ok => prototype = r
            /\ prototype.ok => (r.ok /\ prototype.val.constants = <<r.val>>)

C11_Witness ==
    /\ prototype # None /\ header.ok
    /\ OneConstantAt40(bytecode, header.val.endianness)
    /\ Len(bytecode) >= 42 /\ bytecode[41] = 1 /\ bytecode[42] = 255
    /\ prototype.ok
    /\ prototype.val.constants = << [type |-> "Boolean", v |-> TRUE] >>

\* The signed 32-bit count written at offset `at`, in the byte order e
Declared(buf, at, e) == AsI32(BytesToBits(CountBytes(buf, at, e)))

RECURSIVE FirstBad(_, _, _)
\* Of n elements decoded one after the other from pos: the failure of the first that
\* fails, or the offset where the last one ends
FirstBad(parser(_), pos, n) ==
    IF n = 0 THEN [bad |-> None, pos |-> pos]
    ELSE Let(parser(pos), LAMBDA r :
             IF ~r.ok THEN [bad |-> r, pos |-> pos] ELSE FirstBad(parser, r.pos, n - 1))

\* `res`, the decoding of the section at offset `at`, is the failure of its count or
\* of its first failing element, and otherwise holds as many elements as declared
SectionIsWhole(parser(_), buf, at, h, res) ==
    IF Len(buf) < at + 4 THEN res = Err("Error", "Eof", at)
    ELSE IF Declared(buf, at, h.endianness) < 0 THEN ~res.ok
    ELSE Let(FirstBad(parser, at + 4, Declared(buf, at, h.endianness)), LAMBDA w :
             IF w.bad # None THEN res = w.bad
             ELSE res.ok /\ res.pos = w.pos
                         /\ Len(res.val) = Declared(buf, at, h.endianness))

RECURSIVE PrototypeIsWhole(_, _, _)
RECURSIVE ChildrenAreWhole(_, _, _, _)
\* The decoding of the prototype at pos is the failure of the first of its parts that
\* fails (the first seven fields, each section in turn), and otherwise is made of
\* what the parts yield; the same holds of each nested prototype
PrototypeIsWhole(buf, pos, h) ==
    Let(parse_function(buf, pos, h), LAMBDA whole :
    Let(parse_function_head(buf, pos, h), LAMBDA hd :
    IF ~hd.ok THEN whole = hd ELSE
    Let(parse_section(LAMBDA i : parse_instruction(buf, i, h), buf, hd.pos, h), LAMBDA code :
    SectionIsWhole(LAMBDA i : parse_instruction(buf, i, h), buf, hd.pos, h, code) /\
    IF ~code.ok THEN whole = code ELSE
    Let(parse_section(LAMBDA i : parse_constant(buf, i, h), buf, code.pos, h), LAMBDA ks :
    SectionIsWhole(LAMBDA i : parse_constant(buf, i, h), buf, code.pos, h, ks) /\
    IF ~ks.ok THEN whole = ks ELSE
    Let(parse_section(LAMBDA i : parse_function(buf, i, h), buf, ks.pos, h), LAMBDA ps :
    SectionIsWhole(LAMBDA i : parse_function(buf, i, h), buf, ks.pos, h, ps) /\
    ((Len(buf) >= ks.pos + 4) =>
        ChildrenAreWhole(buf, ks.pos + 4, h, Declared(buf, ks.pos, h.endianness))) /\
    IF ~ps.ok THEN whole = ps ELSE
    Let(parse_section(LAMBDA i : parse_integer(buf, i, h), buf, ps.pos, h), LAMBDA li :
    SectionIsWhole(LAMBDA i : parse_integer(buf, i, h), buf, ps.pos, h, li) /\
    IF ~li.ok THEN whole = li ELSE
    Let(parse_section(LAMBDA i : parse_local_variable(buf, i, h), buf, li.pos, h),
        LAMBDA lv :
    SectionIsWhole(LAMBDA i : parse_local_variable(buf, i, h), buf, li.pos, h, lv) /\
    IF ~lv.ok THEN whole = lv ELSE
    Let(parse_section(LAMBDA i : parse_string(buf, i, h), buf, lv.pos, h), LAMBDA uv :
    SectionIsWhole(LAMBDA i : parse_string(buf, i, h), buf, lv.pos, h, uv) /\
    IF ~uv.ok THEN whole = uv
    ELSE whole.ok /\ whole.pos = uv.pos
         /\ whole.val.source_name = hd.val.source_name
         /\ whole.val.code = code.val
         /\ whole.val.constants = ks.val
         /\ whole.val.prototypes = ps.val
         /\ Len(whole.val.debug_info.lineinfo) = Len(li.val)
         /\ whole.val.debug_info.locals = lv.val
         /\ whole.val.debug_info.upvalues = uv.val))))))))

ChildrenAreWhole(buf, pos, h, n) ==
    \/ n <= 0
    \/ /\ PrototypeIsWhole(buf, pos, h)
       /\ Let(parse_function(buf, pos, h), LAMBDA child :
              child.ok => ChildrenAreWhole(buf, child.pos, h, n - 1))

\* C12: a failure of any field at any depth is the result of parse_lua_bytecode,
\* which then holds no Header and no FunctionPrototype; a success holds every element
\* each count declares: none skipped, no list cut at a failing element, no default.
C12_NoPartialDecode ==
    pc = "done" =>
        /\ outcome.ok =>
              /\ header.ok /\ prototype.ok
              /\ outcome.val = [header |-> header.val, prototype |-> prototype.val]
        /\ ~outcome.ok => DOMAIN outcome = {"ok", "pos", "err", "code"}
        /\ ~header.ok => (outcome = header /\ prototype = None)
        /\ header.ok =>
              /\ ~prototype.ok => outcome = prototype
              /\ PrototypeIsWhole(bytecode, 12, header.val)

\* A nested prototype fails and its failure is the result
C12_Witness ==
    /\ pc = "done" /\ header.ok /\ ~outcome.ok
    /\ Let(parse_function_fields(bytecode, 12, header.val), LAMBDA f :
           /\ f.ok /\ Len(bytecode) >= f.pos + 4
           /\ Declared(bytecode, f.pos, header.val.endianness) = 1
           /\ outcome = parse_function(bytecode, f.pos + 4, header.val)
           /\ outcome.pos > f.pos + 4)

\* A 32-bit word below 2^31, as its bits
Word(n) == ToBits(n, 31) \o <<0>>

\* What the prototype Rich spells, field by field in the order of the file
RichChildDecoded ==
    [source_name |-> <<97>>, line_defined |-> 1, last_line_defined |-> 0,
     num_upvalues |-> 0, num_params |-> 0, is_vararg |-> 0, max_stack_size |-> 0,
     code |-> <<>>, constants |-> <<>>, prototypes |-> <<>>,
     debug_info |-> [lineinfo |-> <<>>, locals |-> <<>>, upvalues |-> <<>>]]

RichDecoded(h) ==
    [source_name |-> <<64, 120>>, line_defined |-> 1, last_line_defined |-> 258,
     num_upvalues |-> 1, num_params |-> 2, is_vararg |-> 3, max_stack_size |-> 4,
     code |-> <<Word(1), Word(8388638), Word(1073741846)>>,
     constants |-> << [type |-> "Nil"], [type |-> "String", v |-> <<104, 105>>],
                      [type |-> "Boolean", v |-> TRUE], [type |-> "Boolean", v |-> FALSE],
                      [type |-> "Number",
                       v |-> [integral |-> h.integral_flag,
                              bytes |-> IF h.endianness = "Little"
                                        THEN <<8, 7, 6, 5, 4, 3, 2, 1>>
                                        ELSE <<1, 2, 3, 4, 5, 6, 7, 8>>]] >>,
     prototypes |-> <<RichChildDecoded>>,
     debug_info |-> [lineinfo |-> <<Word(1), Word(2), Word(2)>>,
                     locals |-> << [varname |-> <<105>>, startpc |-> Word(0),
                                    endpc |-> Word(3)] >>,
                     upvalues |-> << <<117>> >>]]

RichFiles == { EncFile(eb, fl, Rich) : eb \in EndianBytes, fl \in FlagBytes }

\* C13: parse_function reads, each where the one before ended: the source name, the
\* two 4-byte lines, the four single bytes, the code, the constants, the nested
\* prototypes, the line info, the locals and the upvalue names; what it returns as
\* remaining input starts right after the last upvalue name.
C13_FieldOrder ==
    (prototype # None /\ prototype.ok) =>
        /\ Let(parse_string(bytecode, 12, header.val), LAMBDA name :
               /\ name.ok
               /\ prototype.val.source_name = name.val
               /\ prototype.val.line_defined
                     = parse_integer(bytecode, name.pos, header.val).val
               /\ prototype.val.last_line_defined
                     = parse_integer(bytecode, name.pos + 4, header.val).val
               /\ prototype.val.num_upvalues = bytecode[name.pos + 9]
               /\ prototype.val.num_params = bytecode[name.pos + 10]
               /\ prototype.val.is_vararg = bytecode[name.pos + 11]
               /\ prototype.val.max_stack_size = bytecode[name.pos + 12]
               /\ Len(prototype.val.code)
                     = Declared(bytecode, name.pos + 12, header.val.endianness)
               /\ \A k \in 1..Len(prototype.val.code) :
                     parse_instruction(bytecode, name.pos + 12 + 4 * k, header.val)
                        = Ok(name.pos + 16 + 4 * k, prototype.val.code[k]))
        /\ bytecode \in RichFiles =>
               prototype = Ok(Len(bytecode), RichDecoded(header.val))
        /\ \A k \in 0..Len(bytecode) :
               Prefix(bytecode, k) \in DecodableFiles => prototype.pos = k

C13_Witness ==
    /\ pc = "done" /\ bytecode = EncFile(0, 1, Rich)
    /\ outcome.ok
    /\ prototype.pos = Len(bytecode)
    /\ prototype.val.num_params = 2
    /\ prototype.val.debug_info.upvalues = << <<117>> >>

\* The byte order the seventh byte of the file selects
Selected(buf) == IF buf[7] = 1 THEN "Little" ELSE "Big"

\* C14: the endianness byte is never rejected: 1 selects little-endian and each of
\* the other 255 values big-endian; the 4-byte integers and counts, the 8-byte string
\* length, the instruction words and the integral numbers are assembled in the
\* selected order.
C14_ByteOrder ==
    /\ (header # None /\ Len(bytecode) >= 7) =>
           /\ \A v \in 0..255 :
                  parse_endianness(Mutate(bytecode, 7, v), 6)
                     = Ok(7, IF v = 1 THEN "Little" ELSE "Big")
           /\ header.ok => header.val.endianness = Selected(bytecode)
           /\ ~header.ok => header.pos # 6
    /\ (prototype # None /\ prototype.ok) =>
           Let(Selected(bytecode), LAMBDA e :
           Let(SizeBytes(bytecode, e), LAMBDA sb :
           Let(20 + SizeOf(sb), LAMBDA at :
               /\ SmallSize(sb)
               /\ SizeOf(sb) = 0 => prototype.val.source_name = <<>>
               /\ SizeOf(sb) > 0 =>
                      (AllAscii(SubSeq(bytecode, 21, at - 1)) =>
                          prototype.val.source_name = SubSeq(bytecode, 21, at - 1))
               /\ prototype.val.line_defined = Declared(bytecode, at, e)
               /\ prototype.val.last_line_defined = Declared(bytecode, at + 4, e)
               /\ Len(prototype.val.code) = Declared(bytecode, at + 12, e)
               /\ \A k \in 1..Len(prototype.val.code) :
                      prototype.val.code[k]
                         = BytesToBits(CountBytes(bytecode, at + 12 + 4 * k, e))
               /\ (OneConstantAt40(bytecode, e) /\ bytecode[41] = 3) =>
                      prototype.val.constants[1].v.bytes
                         = IF e = "Little" THEN Reverse(SubSeq(bytecode, 42, 49))
                           ELSE SubSeq(bytecode, 42, 49))))

C14_Witness ==
    /\ pc = "done" /\ outcome.ok
    /\ bytecode[7] = 2
    /\ header.val.endianness = "Big"
    /\ prototype.val.last_line_defined = 258
    /\ Len(prototype.val.code) = 3
    /\ prototype.val.code[2] = Word(8388638)
    /\ prototype.val.constants[5].v.bytes = <<1, 2, 3, 4, 5, 6, 7, 8>>

\* Offset of the first byte of the header field a checked byte belongs to
FieldStart(i) == IF i <= 4 THEN 0 ELSE i - 1

\* Offset of the root's code count, the source name being whole
CodeCountAt(buf) == 20 + SizeOf(SizeBytes(buf, Selected(buf))) + 12

\* The root's code count is there and is negative
NegativeCodeCount(buf) ==
    /\ StartsWithValidHeader(buf) /\ Len(buf) >= 20
    /\ SmallSize(SizeBytes(buf, Selected(buf)))
    /\ Len(buf) >= CodeCountAt(buf) + 4
    /\ CodeCountAt(buf) > 32 => buf[CodeCountAt(buf) - 12] = 0
    /\ Declared(buf, CodeCountAt(buf), Selected(buf)) < 0

\* C15: a failure is positioned at the first byte of the field that failed: of the
\* changed header field, of a section's negative count, and for trailing data at the
\* first leftover byte.
C15_ErrorAtFieldStart ==
    pc = "done" =>
        /\ OneByteChanged(bytecode) =>
               (~outcome.ok /\ \A i \in WrongAt(bytecode) : outcome.pos = FieldStart(i))
        /\ \A k \in 0..(Len(bytecode) - 1) :
               Prefix(bytecode, k) \in DecodableFiles => (~outcome.ok /\ outcome.pos = k)
        /\ NegativeCodeCount(bytecode) =>
               (~outcome.ok /\ outcome.pos = CodeCountAt(bytecode))

\* Offsets of the six counts of the prototype Rich (code, constants, prototypes,
\* line info, locals, upvalues) and of its nested prototype, and what they declare
RichCountAt == <<35, 51, 81, 131, 147, 169>>
RichChildCountAt == <<107, 111, 115, 119, 123, 127>>
CountAt == RichCountAt \o RichChildCountAt
RichCounts == <<3, 5, 1, 3, 1, 1, 0, 0, 0, 0, 0, 0>>

CountFieldBytes == UNION { (CountAt[j] + 1)..(CountAt[j] + 4) : j \in 1..12 }

\* The file of Rich, bytes of counts possibly changed
RichButCounts(buf) ==
    /\ StartsWithValidHeader(buf)
    /\ Len(buf) = 12 + Len(EncProto(Rich, Selected(buf)))
    /\ \A i \in (13..Len(buf)) \ CountFieldBytes :
          buf[i] = EncProto(Rich, Selected(buf))[i - 12]

\* The counts in the order the decoder meets them: code and constants of the root,
\* its prototypes count, the six of the nested prototype, then the root's last three
MeetingOrder == <<1, 2, 3, 7, 8, 9, 10, 11, 12, 4, 5, 6>>

ChangedCounts(buf) ==
    { k \in 1..12 : Declared(buf, CountAt[MeetingOrder[k]], Selected(buf))
                        # RichCounts[MeetingOrder[k]] }

SectionLengths(p) ==
    <<Len(p.code), Len(p.constants), Len(p.prototypes), Len(p.debug_info.lineinfo),
      Len(p.debug_info.locals), Len(p.debug_info.upvalues)>>

\* C16: each of the six counts of a prototype is a signed 4-byte integer in the
\* header's byte order; a negative one fails with the length-overflow error (nom's
\* Failure of kind TooLarge) with no element decoded, and a non-negative one is the
\* number of elements decoded.
C16_SectionCounts ==
    /\ (pc = "done" /\ NegativeCodeCount(bytecode)) =>
           outcome = Err("Failure", "TooLarge", CodeCountAt(bytecode) + 4)
    /\ (pc = "done" /\ RichButCounts(bytecode)) =>
           IF ChangedCounts(bytecode) = {}
           THEN /\ outcome.ok
                /\ SectionLengths(prototype.val) \o SectionLengths(prototype.val.prototypes[1])
                      = [j \in 1..12 |-> Declared(bytecode, CountAt[j], Selected(bytecode))]
           ELSE Let(CountAt[MeetingOrder[CHOOSE k \in ChangedCounts(bytecode) :
                        \A l \in ChangedCounts(bytecode) : k <= l]], LAMBDA at :
                    /\ ~outcome.ok
                    /\ Declared(bytecode, at, Selected(bytecode)) < 0 =>
                           outcome = Err("Failure", "TooLarge", at + 4)
                    /\ Declared(bytecode, at, Selected(bytecode)) >= 0 =>
                           outcome.code # "TooLarge")

\* The count of the last section, the upvalue names, is negative
C16_Witness ==
    /\ pc = "done" /\ RichButCounts(bytecode)
    /\ Declared(bytecode, 169, Selected(bytecode)) < 0
    /\ outcome = Err("Failure", "TooLarge", 173)

C16_WitnessCounted ==
    /\ pc = "done" /\ RichButCounts(bytecode) /\ ChangedCounts(bytecode) = {}
    /\ outcome.ok

\* C17: at the source name with size prefix n >= 1, fewer than n-1 content bytes or
\* no terminator byte left is the truncation error (nom's Eof); the bad-terminator
\* error (nom's Tag) is returned only for a terminator byte that is there and not 0.
C17_MissingTerminatorIsTruncated ==
    (prototype # None /\ header.ok /\ Len(bytecode) >= 20
        /\ SmallSize(SizeBytes(bytecode, Selected(bytecode)))
        /\ SizeOf(SizeBytes(bytecode, Selected(bytecode))) >= 1) =>
        Let(SizeOf(SizeBytes(bytecode, Selected(bytecode))), LAMBDA n :
        Let(parse_string(bytecode, 12, header.val), LAMBDA r :
            /\ ~r.ok => prototype = r
            /\ Len(bytecode) < 20 + n => IsTruncated(r)
            /\ (~r.ok /\ r.code = "Tag") =>
                   (Len(bytecode) >= 20 + n /\ bytecode[20 + n] # 0)))

RECURSIVE SumOver(_, _)
SumOver(f, n) == IF n = 0 THEN 0 ELSE f[n] + SumOver(f, n - 1)

RECURSIVE Elements(_)
\* The elements decoded into a prototype: those of its six sections, and those of its
\* nested prototypes
Elements(p) ==
    Len(p.code) + Len(p.constants) + Len(p.prototypes) + Len(p.debug_info.lineinfo)
        + Len(p.debug_info.locals) + Len(p.debug_info.upvalues)
        + SumOver([k \in 1..Len(p.prototypes) |-> Elements(p.prototypes[k])],
                  Len(p.prototypes))

RECURSIVE PrototypesIn(_)
PrototypesIn(p) ==
    1 + SumOver([k \in 1..Len(p.prototypes) |-> PrototypesIn(p.prototypes[k])],
                Len(p.prototypes))

\* A result of decoding at offset p: a success has moved the cursor forward by at
\* least `least` bytes, a failure is positioned at or after p; both inside the buffer
Advances(r, p, least, buf) ==
    /\ r.pos <= Len(buf)
    /\ IF r.ok THEN r.pos >= p + least ELSE r.pos >= p

\* Every element decoder, started anywhere in the buffer, advances
ElementsAdvance(buf, h) ==
    \A p \in 0..Len(buf) :
        /\ Advances(parse_instruction(buf, p, h), p, 4, buf)
        /\ Advances(parse_constant(buf, p, h), p, 1, buf)
        /\ Advances(parse_function(buf, p, h), p, 44, buf)
        /\ Advances(parse_integer(buf, p, h), p, 4, buf)
        /\ Advances(parse_local_variable(buf, p, h), p, 16, buf)
        /\ Advances(parse_string(buf, p, h), p, 8, buf)

\* C18: parse_lua_bytecode ends on every buffer with a success or an error positioned
\* inside it; every decoded element takes at least one byte (a prototype at least
\* 44) and the cursor never moves backwards, so the elements decoded, the prototypes
\* and the depth of nesting are bounded by the length of the buffer whatever the
\* counts declare.
C18_Progress ==
    /\ header # None =>
           /\ Advances(header, 0, 12, bytecode)
           /\ pc = "header" => ElementsAdvance(bytecode, header.val)
    /\ prototype # None =>
           /\ Advances(prototype, header.pos, 44, bytecode)
           /\ prototype.ok =>
                  /\ Elements(prototype.val) <= prototype.pos - header.pos
                  /\ 44 * PrototypesIn(prototype.val) <= prototype.pos - header.pos
                  /\ 44 * Depth(prototype.val) <= Len(bytecode)
    /\ pc = "done" =>
           /\ outcome # None
           /\ outcome.pos \in 0..Len(bytecode)
           /\ prototype # None => outcome.pos >= prototype.pos
           /\ header # None /\ outcome.pos >= header.pos

\* A constants count of 65285 in a file of 183 bytes
C18_Witness ==
    /\ pc = "done" /\ RichButCounts(bytecode)
    /\ Selected(bytecode) = "Little"
    /\ Declared(bytecode, 51, "Little") > Len(bytecode)
    /\ ~outcome.ok /\ outcome.pos <= Len(bytecode)

\* A buffer that decodes, followed by one byte or more
HasTrailingData(buf) == \E k \in 0..(Len(buf) - 1) : Prefix(buf, k) \in DecodableFiles

\* C19: the error for bytes left after the root prototype differs in kind from the
\* error of a field that runs out of bytes, here parse_integer at the end of the
\* same buffer.
C19_TrailingKindDiffers ==
    (pc = "done" /\ HasTrailingData(bytecode)) =>
        /\ ~outcome.ok
        /\ ~parse_integer(bytecode, Len(bytecode), header.val).ok
        /\ KindOf(outcome) # KindOf(parse_integer(bytecode, Len(bytecode), header.val))

====
